---- MODULE Spec2Model ----
(***************************************************************************)
(* Model of the scheduled push service of src/main.py: the APScheduler     *)
(* job store (pending date-triggered jobs), the in-memory task_store, the  *)
(* MySQL table `tasks`, the HTTP handlers, the dispatch callback           *)
(* send_push_notification and the lifespan start/stop.                     *)
(*                                                                         *)
(* Time is discrete; one tick is one second (the default                   *)
(* misfire_grace_time of APScheduler is one second).                       *)
(***************************************************************************)
EXTENDS Integers, FiniteSets, Sequences, TLC

\* ---------------------------------------------------------------- bounds
MaxTime == 3
MaxSubmits == 2
MaxStops == 1
Horizon == 1

\* ------------------------------------------------------ program constants
\* APScheduler job default misfire_grace_time (seconds); the scheduler is
\* constructed without job_defaults and add_job passes none.
misfire_grace_time == 1
\* APScheduler job default max_instances.
max_instances == 1

JobIds == {1, 2}
Contents == {"a", "b"}
BarkKeys == {"k"}
TzInfos == {"naive", "+00", "+01"}
StatusCodes == {"200", "201", "500"}
Terminal == {"completed", "failed"}

\* ------------------------------------------------------------- datetimes
\* A datetime is its wall-clock reading and its tzinfo.
Datetime(wall, tz) == [wall |-> wall, tz |-> tz]

utcoffset(tz) == IF tz = "+01" THEN 1 ELSE 0

\* The instant an aware datetime denotes (what <= compares).
Instant(dt) == dt.wall - utcoffset(dt.tz)

\* datetime.isoformat(): the text carries the wall clock and the offset.
isoformat(dt) == <<dt.wall, dt.tz>>

\* What a DATETIME column keeps of a datetime parameter: the wall clock;
\* what comes back from a SELECT is a naive datetime.
to_column(dt) == dt.wall
from_column(wall) == Datetime(wall, "naive")

\* ------------------------------------------------------- partial mappings
Put(f, k, v) == [x \in (DOMAIN f) \cup {k} |-> IF x = k THEN v ELSE f[x]]
Del(f, k) == [x \in (DOMAIN f) \ {k} |-> f[x]]
Empty == [x \in {} |-> 0]

VARIABLES
  now,         \* wall clock of the host, in seconds
  running,     \* the process is up and scheduler.running
  jobstore,    \* SQLAlchemyJobStore: job id -> pending job
  task_store,  \* in-memory dict: job id -> task info
  tasks,       \* table `tasks`: job id -> row
  inflight,    \* send_push_notification coroutines awaiting the response
  accepted,    \* history: per id, number of successful add_job calls
  calls,       \* history: per id and submission, number of invocations
  acked,       \* history: submissions schedule_task answered with success
  cancelled,   \* history: submissions cancel_task reported as cancelled
  recovered,   \* history: submissions found due and pending at start
  stops,       \* history: number of shutdowns
  resp         \* the response of the handler or callback that ran last, if one did

vars == <<now, running, jobstore, task_store, tasks, inflight, accepted,
          calls, acked, cancelled, recovered, stops, resp>>

NoReq == [schedule_time |-> Datetime(0, "naive"), content |-> "", bark_key |-> ""]
Resp(op, code, job_id, req, detail) ==
  [op |-> op, code |-> code, job_id |-> job_id, req |-> req, detail |-> detail]
NoResp == Resp("none", 0, 0, NoReq, "")

\* The requests tried at time t: wall clocks from t to t + Horizon, which
\* with the offsets gives instants before, at and after t.
Requests(t) ==
  [schedule_time : {Datetime(w, tz) : w \in t..(t + Horizon), tz \in TzInfos},
   content : Contents, bark_key : BarkKeys]

Init ==
  /\ now = 0
  /\ running = TRUE
  /\ jobstore = Empty
  /\ task_store = Empty
  /\ tasks = Empty
  /\ inflight = {}
  /\ accepted = [j \in JobIds |-> 0]
  /\ calls = [j \in JobIds |-> [g \in 1..MaxSubmits |-> 0]]
  /\ acked = {}
  /\ cancelled = {}
  /\ recovered = {}
  /\ stops = 0
  /\ resp = NoResp

RECURSIVE Sum(_, _)
Sum(f, S) == IF S = {} THEN 0
             ELSE LET x == CHOOSE y \in S : TRUE IN f[x] + Sum(f, S \ {x})
Submitted == Sum(accepted, JobIds)

\* ------------------------------------------------------------ the table
\* Variant of save_task_to_db: the row is buffered and not yet in the table
\* when the call returns.
save_task_to_db_deferred(db, job_id, bark_key, schedule_time, content, status) == db

\* INSERT ... ON DUPLICATE KEY UPDATE: the row of job_id is replaced.
\* (created_at is written and never read; it is left out of the row.)
save_task_to_db(db, job_id, bark_key, schedule_time, content, status) ==
  Put(db, job_id, [bark_key |-> bark_key, schedule_time |-> to_column(schedule_time),
                   content |-> content, status |-> status])

\* The row as load_tasks_from_db puts it into task_store.
loaded_info(job_id, row) ==
  [job_id |-> job_id, bark_key |-> row.bark_key,
   schedule_time |-> isoformat(from_column(row.schedule_time)),
   content |-> row.content, status |-> row.status]

\* SELECT ... FROM tasks; task_store[job_id] = {...} for every row.
load_tasks_from_db(ts, db) ==
  [j \in (DOMAIN ts) \cup (DOMAIN db) |->
     IF j \in DOMAIN db THEN loaded_info(j, db[j]) ELSE ts[j]]

\* Faults of update_task_status_in_db: "raises" is an exception before the
\* row is written (the SELECT or save_task_to_db fails); "commit_raises" is
\* an exception of the outer conn.commit(), after save_task_to_db has
\* committed on its own connection.
DbFaults == {"none", "raises", "commit_raises"}

\* Variant of update_task_status_in_db: the status is saved whether or not
\* the SELECT found a row.
update_task_status_in_db_upsert(db, job_id, status, fault) ==
  IF fault = "raises" THEN [tasks |-> db, raised |-> TRUE]
  ELSE [tasks |-> Put(db, job_id,
                      IF job_id \in DOMAIN db
                      THEN [db[job_id] EXCEPT !.status = status]
                      ELSE [bark_key |-> "", schedule_time |-> 0,
                            content |-> "", status |-> status]),
        raised |-> (fault = "commit_raises")]

\* SELECT the row; if there is one, save it again with the new status.
update_task_status_in_db(db, job_id, status, fault) ==
  IF fault = "raises" THEN [tasks |-> db, raised |-> TRUE]
  ELSE LET written ==
             IF job_id \in DOMAIN db
             THEN save_task_to_db(db, job_id, db[job_id].bark_key,
                                  from_column(db[job_id].schedule_time),
                                  db[job_id].content, status)
             ELSE db
       IN [tasks |-> written, raised |-> (fault = "commit_raises")]

\* Variant of delete_task_from_db: the DELETE is never committed.
delete_task_from_db_skip(db, job_id) == db

\* DELETE FROM tasks WHERE job_id = :job_id
delete_task_from_db(db, job_id) == Del(db, job_id)

\* ------------------------------------------------------- the event loop
\* The pending jobs whose run time has come.
Due(js, t) == {j \in DOMAIN js : Instant(js[j].run_date) <= t}

\* A request handler runs when the process is up and the scheduler's timer
\* has no due job to process: the wake-up that scheduler.start() and
\* add_job() arm runs on the event loop before the handler does.
Serving == running /\ Due(jobstore, now) = {}

\* --------------------------------------------------------- schedule_task
\* Variant of time_check: a run time equal to the current time passes.
time_check_strict(request_time, t) ==
  IF request_time.tz = "naive" THEN "no_tzinfo"
  ELSE IF Instant(request_time) < t THEN "not_future"
  ELSE "ok"

\* The two checks at the head of schedule_task.
time_check(request_time, t) ==
  IF request_time.tz = "naive" THEN "no_tzinfo"
  ELSE IF Instant(request_time) <= t THEN "not_future"
  ELSE "ok"

\* scheduler.add_job(..., id=job_id, replace_existing=False): raises
\* ConflictingIdError when the job store holds a job with that id.
add_job(js, job_id, run_date, args) ==
  IF job_id \in DOMAIN js
  THEN [ok |-> FALSE, jobstore |-> js]
  ELSE [ok |-> TRUE, jobstore |-> Put(js, job_id, [run_date |-> run_date, args |-> args])]

\* Variant of task_info: the time is kept the way the table keeps it.
task_info_naive(job_id, request) ==
  [job_id |-> job_id,
   schedule_time |-> isoformat(from_column(to_column(request.schedule_time))),
   content |-> request.content, status |-> "scheduled"]

\* The dict schedule_task puts into task_store.
task_info(job_id, request) ==
  [job_id |-> job_id, schedule_time |-> isoformat(request.schedule_time),
   content |-> request.content, status |-> "scheduled"]

\* POST /schedule. job_id is the value uuid4()[:8] produced; save_fault is
\* whether save_task_to_db raises.
schedule_task(request, job_id, save_fault) ==
  /\ Serving
  /\ Submitted < MaxSubmits
  /\ LET check == time_check(request.schedule_time, now)
         added == add_job(jobstore, job_id, request.schedule_time,
                          <<job_id, request.bark_key, request.content>>)
     IN IF check # "ok"
        THEN /\ resp' = Resp("schedule", 400, 0, request, check)
             /\ UNCHANGED <<jobstore, task_store, tasks, accepted, acked>>
        ELSE IF ~added.ok
        THEN /\ resp' = Resp("schedule", 500, job_id, request, "ConflictingIdError")
             /\ UNCHANGED <<jobstore, task_store, tasks, accepted, acked>>
        ELSE /\ jobstore' = added.jobstore
             /\ accepted' = [accepted EXCEPT ![job_id] = @ + 1]
             /\ task_store' = Put(task_store, job_id, task_info(job_id, request))
             /\ IF save_fault
                THEN /\ tasks' = tasks
                     /\ acked' = acked
                     /\ resp' = Resp("schedule", 500, job_id, request, "StoreFailure")
                ELSE /\ tasks' = save_task_to_db(tasks, job_id, request.bark_key,
                                                 request.schedule_time, request.content,
                                                 "scheduled")
                     /\ acked' = acked \cup {<<job_id, accepted[job_id] + 1>>}
                     /\ resp' = Resp("schedule", 200, job_id, request, "scheduled")
  /\ UNCHANGED <<now, running, inflight, calls, cancelled, recovered, stops>>

\* ------------------------------------------------------- queries
\* GET /tasks/{job_id}: the status code and the body.
get_task_result(ts, job_id) ==
  IF job_id \notin DOMAIN ts
  THEN [code |-> 404, body |-> [status |-> "none"]]
  ELSE [code |-> 200, body |-> ts[job_id]]

\* GET /tasks: total, the tasks and the ids of the pending scheduler jobs.
list_tasks_result(ts, js) ==
  [total |-> Cardinality(DOMAIN ts), tasks |-> ts, scheduler_jobs |-> DOMAIN js]

\* ----------------------------------------------------------- cancel_task
\* DELETE /tasks/{job_id}. delete_fault is whether delete_task_from_db raises.
cancel_task(job_id, delete_fault) ==
  /\ Serving
  /\ IF job_id \notin DOMAIN task_store
     THEN /\ resp' = Resp("cancel", 404, job_id, NoReq, "not found")
          /\ UNCHANGED <<jobstore, task_store, tasks, cancelled>>
     ELSE IF job_id \notin DOMAIN jobstore
     THEN \* scheduler.remove_job raises JobLookupError
          /\ resp' = Resp("cancel", 404, job_id, NoReq, "not found or executed")
          /\ UNCHANGED <<jobstore, task_store, tasks, cancelled>>
     ELSE /\ jobstore' = Del(jobstore, job_id)
          /\ task_store' = Del(task_store, job_id)
          /\ IF delete_fault
             THEN /\ tasks' = tasks
                  /\ cancelled' = cancelled
                  /\ resp' = Resp("cancel", 500, job_id, NoReq, "StoreFailure")
             ELSE /\ tasks' = delete_task_from_db(tasks, job_id)
                  /\ cancelled' = cancelled \cup {<<job_id, accepted[job_id]>>}
                  /\ resp' = Resp("cancel", 200, job_id, NoReq, "cancelled")
  /\ UNCHANGED <<now, running, inflight, accepted, calls, acked, recovered, stops>>

\* ------------------------------------------------ send_push_notification
\* Variant of set_status: the status is assigned without the membership
\* test, which makes an entry for an id that has none.
set_status_create(ts, job_id, status) ==
  IF job_id \in DOMAIN ts THEN [ts EXCEPT ![job_id].status = status]
  ELSE Put(ts, job_id, [job_id |-> job_id, status |-> status])

\* task_store[job_id]['status'] = status, if job_id in task_store.
set_status(ts, job_id, status) ==
  IF job_id \in DOMAIN ts THEN [ts EXCEPT ![job_id].status = status] ELSE ts

\* What the response of the outbound GET makes of the job: 200 is the
\* success branch, any other status code the else branch.
outcome_status(outcome) == IF outcome = "200" THEN "completed" ELSE "failed"

\* The except branch: mark failed in task_store, then in the table. An
\* exception of this second update leaves the callback.
except_branch(ts, db, job_id, fault) ==
  LET upd == update_task_status_in_db(db, job_id, "failed", fault)
  IN [task_store |-> set_status(ts, job_id, "failed"),
      tasks |-> upd.tasks, escaped |-> upd.raised]

\* The callback from the point where client.get returns or raises.
\* outcome is a status code or "error" (a transport fault); fault1 is the
\* fault of the update in the try block, fault2 of the one in the except.
send_push_notification(ts, db, job_id, outcome, fault1, fault2) ==
  IF outcome = "error"
  THEN except_branch(ts, db, job_id, fault2)
  ELSE LET status == outcome_status(outcome)
           ts1 == set_status(ts, job_id, status)
           upd == update_task_status_in_db(db, job_id, status, fault1)
       IN IF upd.raised
          THEN except_branch(ts1, upd.tasks, job_id, fault2)
          ELSE [task_store |-> ts1, tasks |-> upd.tasks, escaped |-> FALSE]

Outcomes == StatusCodes \cup {"error"}

\* response.status_code as a number; 0 stands for no response (client.get
\* raised).
status_code(outcome) ==
  CASE outcome = "200" -> 200
    [] outcome = "201" -> 201
    [] outcome = "500" -> 500
    [] OTHER -> 0

\* response.text of the outbound GET.
response_text == "ok"

\* The keyword arguments the callback hands to update_task_status_in_db
\* next to the status: response=response.text in the success branch,
\* error="HTTP <code>" in the else branch, error=str(e) in the except.
extra(code, text) ==
  CASE code = 200 -> text
    [] code = 201 -> "HTTP 201"
    [] code = 500 -> "HTTP 500"
    [] OTHER -> "exception"

\* One in-flight callback receives its response and runs to its end.
dispatch_done(d, outcome, fault1, fault2) ==
  /\ running
  /\ d \in inflight
  /\ LET r == send_push_notification(task_store, tasks, d.job_id, outcome, fault1, fault2)
     IN /\ task_store' = r.task_store
        /\ tasks' = r.tasks
        /\ resp' = Resp("dispatch", status_code(outcome), d.job_id, NoReq,
                        IF r.escaped THEN "raised" ELSE "returned")
  /\ inflight' = inflight \ {d}
  /\ UNCHANGED <<now, running, jobstore, accepted, calls, acked, cancelled, recovered, stops>>

\* ------------------------------------------------------ the scheduler
Running(infl, job_id) == Cardinality({d \in infl : d.job_id = job_id})

\* What the scheduler does with a due job: "max_instances" when as many
\* callbacks of that id are running as max_instances allows, "missed" when
\* the run time is more than misfire_grace_time ago, else "run".
job_verdict(js, infl, t, job_id) ==
  IF Running(infl, job_id) >= max_instances THEN "max_instances"
  ELSE IF t - Instant(js[job_id].run_date) > misfire_grace_time THEN "missed"
  ELSE "run"

\* Variant of after_process: the jobs handed to the executor stay in the
\* job store.
after_process_keep(js, due) == js

\* The job store after a pass over the due jobs: a date-triggered job has
\* no next run time and is removed.
after_process(js, due) == [j \in (DOMAIN js) \ due |-> js[j]]

\* _process_jobs: every due job is handed to the executor or skipped, and
\* removed from the job store.
process_jobs ==
  /\ running
  /\ Due(jobstore, now) # {}
  /\ LET due == Due(jobstore, now)
         run == {j \in due : job_verdict(jobstore, inflight, now, j) = "run"}
     IN /\ jobstore' = after_process(jobstore, due)
        /\ inflight' = inflight \cup
             {[job_id |-> jobstore[j].args[1], bark_key |-> jobstore[j].args[2],
               content |-> jobstore[j].args[3], sub |-> accepted[j]] : j \in run}
        /\ calls' = [j \in JobIds |->
                       IF j \in run THEN [calls[j] EXCEPT ![accepted[j]] = @ + 1]
                       ELSE calls[j]]
  /\ resp' = NoResp
  /\ UNCHANGED <<now, running, task_store, tasks, accepted, acked, cancelled, recovered, stops>>

\* The clock. A running scheduler wakes at the next run time, so no due
\* job is left waiting while the clock goes on.
Tick ==
  /\ now < MaxTime
  /\ running => Due(jobstore, now) = {}
  /\ now' = now + 1
  /\ resp' = NoResp
  /\ UNCHANGED <<running, jobstore, task_store, tasks, inflight, accepted,
                 calls, acked, cancelled, recovered, stops>>

\* ----------------------------------------------------------- lifespan
\* Shutdown and the end of the process: scheduler.shutdown() cancels the
\* running callbacks (CancelledError is not an Exception, so the except
\* branch does not run) and the memory of the process is gone.
lifespan_shutdown ==
  /\ running
  /\ stops < MaxStops
  /\ running' = FALSE
  /\ stops' = stops + 1
  /\ inflight' = {}
  /\ task_store' = Empty
  /\ resp' = NoResp
  /\ UNCHANGED <<now, jobstore, tasks, accepted, calls, acked, cancelled, recovered>>

\* Startup of a new process: init_db, load_tasks_from_db, scheduler.start.
lifespan_startup ==
  /\ ~running
  /\ running' = TRUE
  /\ task_store' = load_tasks_from_db(task_store, tasks)
  /\ recovered' = recovered \cup
       {<<j, accepted[j]>> : j \in {i \in Due(jobstore, now) :
                                      i \in DOMAIN tasks /\ tasks[i].status = "scheduled"}}
  /\ resp' = NoResp
  /\ UNCHANGED <<now, jobstore, tasks, inflight, accepted, calls, acked, cancelled, stops>>

\* Startup when handling a row raises inside the loop of
\* load_tasks_from_db (a schedule_time the driver could not turn into a
\* datetime has no isoformat; the connection drops during the fetch): the
\* try around the whole loop ends the load with a warning. bad is the row
\* that raises, before the rows the SELECT delivered ahead of it.
lifespan_startup_bad_row(bad, before) ==
  /\ ~running
  /\ bad \in DOMAIN tasks
  /\ before \subseteq (DOMAIN tasks) \ {bad}
  /\ running' = TRUE
  /\ task_store' = load_tasks_from_db(task_store, [j \in before |-> tasks[j]])
  /\ recovered' = recovered \cup
       {<<j, accepted[j]>> : j \in {i \in Due(jobstore, now) :
                                      i \in DOMAIN tasks /\ tasks[i].status = "scheduled"}}
  /\ resp' = Resp("start", 0, bad, NoReq, "load failed")
  /\ UNCHANGED <<now, jobstore, tasks, inflight, accepted, calls, acked, cancelled, stops>>

Schedule(faults) ==
  \E request \in Requests(now), job_id \in JobIds, save_fault \in faults :
    schedule_task(request, job_id, save_fault)

Cancel(faults) ==
  \E job_id \in JobIds, delete_fault \in faults : cancel_task(job_id, delete_fault)

DispatchDone(faults) ==
  \E d \in inflight, outcome \in Outcomes, fault1 \in faults, fault2 \in faults :
    dispatch_done(d, outcome, fault1, fault2)

Next ==
  \/ Schedule(BOOLEAN)
  \/ Cancel(BOOLEAN)
  \/ DispatchDone(DbFaults)
  \/ process_jobs
  \/ Tick
  \/ lifespan_shutdown
  \/ lifespan_startup

Spec == Init /\ [][Next]_vars

\* The same program when the database never fails.
NextNoFault ==
  \/ Schedule({FALSE})
  \/ Cancel({FALSE})
  \/ DispatchDone({"none"})
  \/ process_jobs
  \/ Tick
  \/ lifespan_shutdown
  \/ lifespan_startup

SpecNoFault == Init /\ [][NextNoFault]_vars

\* The program when the handlers and callbacks meet no database fault and
\* a row of the table can fail to load at startup.
NextBadRow ==
  \/ NextNoFault
  \/ \E bad \in JobIds, before \in SUBSET JobIds : lifespan_startup_bad_row(bad, before)

SpecBadRow == Init /\ [][NextBadRow]_vars

\* ====================================================================
\* Properties
\* ====================================================================
Submissions == {<<j, g>> \in JobIds \X (1..MaxSubmits) : g <= accepted[j]}
Pending(j, g) == j \in DOMAIN jobstore /\ accepted[j] = g
InFlight(j, g) == \E d \in inflight : d.job_id = j /\ d.sub = g
HasStatus(store, j, statuses) == j \in DOMAIN store /\ store[j].status \in statuses

\* C1 -- At-most-once dispatch: send_push_notification is invoked at most
\* once for every accepted submission, over any interleaving of submit,
\* cancel, timer passes, stop and restart; when the callback of a
\* submission runs, its pending entry is gone from the job store; and no
\* two callbacks of the same job_id are running at once.
AtMostOnceDispatch ==
  /\ \A sub \in Submissions : calls[sub[1]][sub[2]] <= 1
  /\ \A d \in inflight : ~Pending(d.job_id, d.sub)
  /\ \A j \in JobIds : Running(inflight, j) <= 1

\* C1 witness: after a restart a callback is running, invoked once, and
\* its job_id has no pending entry.
AtMostOnceDispatchWitness ==
  \E d \in inflight :
    /\ stops >= 1
    /\ calls[d.job_id][d.sub] = 1
    /\ d.job_id \notin DOMAIN jobstore

\* C2 -- Crash recovery: a job that was pending with status 'scheduled' in
\* the table when the process stopped, and whose run time has passed when
\* the process starts again, is dispatched exactly once on start, before
\* any request is served: as long as it is still pending no handler has
\* answered, and once it is no longer pending its callback has been
\* invoked exactly once.
CrashRecovery ==
  \A sub \in recovered :
    IF Pending(sub[1], sub[2])
    THEN resp.op \notin {"schedule", "cancel"}
    ELSE calls[sub[1]][sub[2]] = 1

\* C3 -- Status is monotone: in task_store and in the table the status of
\* a job_id only ever goes scheduled -> completed or scheduled -> failed;
\* no step changes a completed or failed status.
StatusStep(old, new) == new = old \/ (old = "scheduled" /\ new \in Terminal)
StatusMonotone ==
  [][\A j \in JobIds :
       /\ (j \in DOMAIN task_store /\ j \in DOMAIN task_store')
            => StatusStep(task_store[j].status, task_store'[j].status)
       /\ (j \in DOMAIN tasks /\ j \in DOMAIN tasks')
            => StatusStep(tasks[j].status, tasks'[j].status)]_vars

\* C4 -- Cancellation race: cancel_task for a job_id that has no pending
\* entry (its timer has fired, the dispatch is in flight or finished)
\* answers 404 and removes nothing; and a submission whose cancel answered
\* success is never dispatched, and until its id is submitted again no
\* record of it comes back into task_store or the table.
CancelOfFiredChangesNothing ==
  (resp'.op = "cancel" /\ resp'.job_id \notin DOMAIN jobstore)
    => (resp'.code = 404 /\ UNCHANGED <<jobstore, task_store, tasks, inflight>>)
CancelledStaysCancelled ==
  \A sub \in cancelled :
    /\ calls[sub[1]][sub[2]] = 0
    /\ ~InFlight(sub[1], sub[2])
    /\ accepted[sub[1]] = sub[2]
         => /\ sub[1] \notin DOMAIN jobstore
            /\ sub[1] \notin DOMAIN task_store
            /\ sub[1] \notin DOMAIN tasks
CancellationRace ==
  [][CancelOfFiredChangesNothing]_vars /\ []CancelledStaysCancelled

\* C4 witness: cancel_task has just answered 404 for a job whose dispatch
\* is in flight.
CancellationRaceWitness ==
  /\ resp.op = "cancel"
  /\ resp.code = 404
  /\ resp.detail = "not found or executed"
  /\ \E d \in inflight : d.job_id = resp.job_id

\* C5 -- Every submission that schedule_task acknowledged and that was not
\* cancelled gets exactly one dispatch and ends completed or failed in
\* task_store and in the table: once it is neither pending nor in flight
\* (nothing will run for it any more) it has been invoked exactly once and
\* its status is terminal in the table and, while the process is up, in
\* task_store.
EveryJobSettles ==
  \A j \in JobIds :
    (/\ <<j, accepted[j]>> \in acked \ cancelled
     /\ ~Pending(j, accepted[j])
     /\ ~InFlight(j, accepted[j]))
      => /\ calls[j][accepted[j]] = 1
         /\ HasStatus(tasks, j, Terminal)
         /\ running => HasStatus(task_store, j, Terminal)

\* C6 -- A submit that fails because save_task_to_db raises is applied not
\* at all: after the 500 answer the job is not pending in the job store,
\* not in task_store and not in the table.
SubmitAllOrNothing ==
  (resp.op = "schedule" /\ resp.code = 500 /\ resp.detail = "StoreFailure")
    => /\ resp.job_id \notin DOMAIN jobstore
       /\ resp.job_id \notin DOMAIN task_store
       /\ resp.job_id \notin DOMAIN tasks

\* C7 -- schedule_task never reuses an identifier that is present in
\* task_store: a submit that answers success used a job_id that had no
\* record, so it replaced the record of no existing job.
NoIdReuse ==
  [][(resp'.op = "schedule" /\ resp'.code = 200)
       => resp'.job_id \notin DOMAIN task_store]_vars

\* C8 -- After a successful submit, get_task with the returned id answers
\* 200 and shows status 'scheduled' with the submitted run time and
\* content.
SubmitThenGet ==
  (resp.op = "schedule" /\ resp.code = 200)
    => LET r == get_task_result(task_store, resp.job_id)
       IN /\ Instant(resp.req.schedule_time) > now
          /\ r.code = 200
          /\ r.body.job_id = resp.job_id
          /\ r.body.status = "scheduled"
          /\ r.body.schedule_time = isoformat(resp.req.schedule_time)
          /\ r.body.content = resp.req.content

\* C8 witness: a submit has just succeeded with an id that was used before
\* and with content "b".
SubmitThenGetWitness ==
  /\ resp.op = "schedule"
  /\ resp.code = 200
  /\ resp.req.content = "b"
  /\ accepted[resp.job_id] = 2

ShowsDetail(record, code) ==
  /\ "outcome_detail" \in DOMAIN record
  /\ record.outcome_detail = extra(code, response_text)
OutcomeDetailRecorded ==
  (resp.op = "dispatch" /\ resp.detail = "returned" /\ resp.code # 0)
    => /\ get_task_result(task_store, resp.job_id).code = 200
            => /\ resp.code = 200
                    => get_task_result(task_store, resp.job_id).body.status = "completed"
               /\ ShowsDetail(get_task_result(task_store, resp.job_id).body, resp.code)
       /\ resp.job_id \in DOMAIN tasks => ShowsDetail(tasks[resp.job_id], resp.code)

\* C12 -- Dispatch classification: when the callback has returned, the job
\* is 'completed' after every 2xx status code and 'failed' after every
\* other status code and after a transport fault, in task_store and in the
\* table.
Classified(code) == IF code \in 200..299 THEN "completed" ELSE "failed"
DispatchClassification ==
  (resp.op = "dispatch" /\ resp.detail = "returned")
    => /\ resp.job_id \in DOMAIN task_store
            => task_store[resp.job_id].status = Classified(resp.code)
       /\ resp.job_id \in DOMAIN tasks
            => tasks[resp.job_id].status = Classified(resp.code)

\* C13 -- A cancel that answers success has removed the job from the job
\* store, from task_store and from the table in that one step, so no
\* handler and no timer pass sees it in some of the three only; right
\* after it and later get_task answers 404, and as long as the id is not
\* submitted again the job is in none of the three, also after a restart.
GoneEverywhere(j, js, ts, db) ==
  /\ j \notin DOMAIN js
  /\ j \notin DOMAIN db
  /\ get_task_result(ts, j).code = 404
  /\ j \notin list_tasks_result(ts, js).scheduler_jobs
  /\ j \notin DOMAIN list_tasks_result(ts, js).tasks
CancelIsOneStep ==
  (resp'.op = "cancel" /\ resp'.code = 200)
    => /\ resp'.job_id \in DOMAIN jobstore
       /\ resp'.job_id \in DOMAIN task_store
       /\ GoneEverywhere(resp'.job_id, jobstore', task_store', tasks')
CancelAtomic ==
  /\ [][CancelIsOneStep]_vars
  /\ [](\A sub \in cancelled :
          accepted[sub[1]] = sub[2]
            => GoneEverywhere(sub[1], jobstore, task_store, tasks))

\* C13 witness: after a restart a cancelled job, whose id was not used
\* again, is looked up while another job is on record.
CancelAtomicWitness ==
  /\ running
  /\ stops >= 1
  /\ \E sub \in cancelled :
       /\ accepted[sub[1]] = sub[2]
       /\ get_task_result(task_store, sub[1]).code = 404
       /\ DOMAIN task_store # {}

\* C14 -- A cancel that fails because delete_task_from_db raises is applied
\* not at all: after the error answer the job is still pending in the job
\* store and still in task_store and in the table.
CancelAllOrNothing ==
  (resp.op = "cancel" /\ resp.code = 500 /\ resp.detail = "StoreFailure")
    => /\ resp.job_id \in DOMAIN jobstore
       /\ resp.job_id \in DOMAIN task_store
       /\ resp.job_id \in DOMAIN tasks

\* C15 -- Index/Store agreement: for a job with no dispatch in progress,
\* task_store and the table hold the same status; in particular when the
\* callback has ended, by returning or by an exception, both hold the same
\* terminal status.
Dispatching(j) == \E d \in inflight : d.job_id = j
IndexStoreAgree ==
  /\ \A j \in JobIds :
       (running /\ ~Dispatching(j) /\ j \in DOMAIN task_store /\ j \in DOMAIN tasks)
         => task_store[j].status = tasks[j].status
  /\ (resp.op = "dispatch" /\ resp.job_id \in DOMAIN task_store
        /\ resp.job_id \in DOMAIN tasks /\ ~Dispatching(resp.job_id))
       => /\ task_store[resp.job_id].status \in Terminal
          /\ tasks[resp.job_id].status = task_store[resp.job_id].status

\* C16 -- A fault during a dispatch is contained in the callback: no
\* exception leaves send_push_notification, and after a transport fault or
\* a failed write of the outcome the job is recorded 'failed' in
\* task_store and in the table.
DispatchContained ==
  resp.op = "dispatch"
    => /\ resp.detail = "returned"
       /\ resp.code = 0
            => /\ resp.job_id \in DOMAIN task_store
                    => task_store[resp.job_id].status = "failed"
               /\ resp.job_id \in DOMAIN tasks
                    => tasks[resp.job_id].status = "failed"

\* C17 -- A stop followed by a start loses no un-fired job: the shutdown
\* and the startup leave every pending job in the job store with its run
\* time and arguments, and after the start each of them has a 'scheduled'
\* row in the table and a 'scheduled' entry in the reloaded task_store.
StopStartKeepsJobs ==
  [][/\ (running /\ ~running') => jobstore' = jobstore
     /\ (~running /\ running')
          => \A j \in DOMAIN jobstore :
               /\ j \in DOMAIN jobstore'
               /\ jobstore'[j] = jobstore[j]
               /\ HasStatus(tasks', j, {"scheduled"})
               /\ HasStatus(task_store', j, {"scheduled"})]_vars

\* C18 -- load_tasks_from_db at startup copies every well-formed row into
\* task_store even when a row is malformed: the bad row alone is skipped
\* with a warning, every other row is loaded, and the startup goes on.
LoadSkipsOnlyBadRow ==
  resp.op = "start"
    => /\ running
       /\ \A j \in (DOMAIN tasks) \ {resp.job_id} :
            /\ j \in DOMAIN task_store
            /\ task_store[j] = loaded_info(j, tasks[j])

\* C19 -- No orphans: while the process is up, every job pending in the
\* job store has a 'scheduled' entry in task_store and a 'scheduled' row
\* in the table, and every 'scheduled' entry or row belongs to a job that
\* is pending or whose dispatch is in flight.
NoOrphans ==
  running =>
    /\ \A j \in DOMAIN jobstore :
         HasStatus(task_store, j, {"scheduled"}) /\ HasStatus(tasks, j, {"scheduled"})
    /\ \A j \in JobIds :
         (HasStatus(task_store, j, {"scheduled"}) \/ HasStatus(tasks, j, {"scheduled"}))
           => (j \in DOMAIN jobstore \/ Dispatching(j))

\* C20 -- Dispatch never creates a record and touches only its own job:
\* when send_push_notification ends for a job_id that has no entry in
\* task_store it still has none, likewise for the row in the table, and
\* the entries and rows of every other job_id are as they were.
SameRecord(old, new, k) ==
  /\ (k \in DOMAIN old) = (k \in DOMAIN new)
  /\ k \in DOMAIN old => new[k] = old[k]
DispatchFrame ==
  [][resp'.op = "dispatch"
       => /\ resp'.job_id \notin DOMAIN task_store => resp'.job_id \notin DOMAIN task_store'
          /\ resp'.job_id \notin DOMAIN tasks => resp'.job_id \notin DOMAIN tasks'
          /\ \A k \in JobIds \ {resp'.job_id} :
               SameRecord(task_store, task_store', k) /\ SameRecord(tasks, tasks', k)]_vars

\* C20 witness: a callback has ended for a job_id that has no row in the
\* table while the callback of another job, which has a row, is in flight.
DispatchFrameWitness ==
  /\ resp.op = "dispatch"
  /\ resp.job_id \notin DOMAIN tasks
  /\ \E k \in JobIds \ {resp.job_id} : k \in DOMAIN tasks /\ Dispatching(k)

====
